---- MODULE Spec2Model ----
(***************************************************************************)
(* StockVision backend (src/backend/main.py): the time-boxed result cache  *)
(* and history log behind /analyze and DELETE /cache, and the pure scoring *)
(* and forecasting functions.                                              *)
(*                                                                         *)
(* Time is counted in whole hours.  A keyword is a sequence of characters. *)
(* Python's None is the empty sequence <<>> and a present value v is <<v>>.*)
(* Every request handler opens its own sqlite3 connection, so requests     *)
(* served by different workers interleave at the granularity of database   *)
(* statements; cache and history are the committed contents of the tables. *)
(***************************************************************************)
EXTENDS Integers, Sequences, FiniteSets, TLC

VARIABLES now, cache, history, nextId, pc, kw, res, resp, tr, lastWrite, nreq,
          fin, fout

vars == <<now, cache, history, nextId, pc, kw, res, resp, tr, lastWrite, nreq,
          fin, fout>>

dbvars == <<now, cache, history, nextId, pc, kw, res, resp, tr, lastWrite, nreq>>

fnvars == <<fin, fout>>

----------------------------------------------------------------------------
(* Bounds of the model *)

MaxRequests == 2

MaxClock == 24

TickHours == 12

(* Program constant *)
CACHE_EXPIRY_HOURS == 24

(* Two workers serve requests concurrently *)
Procs == {1, 2}

None == <<>>

----------------------------------------------------------------------------
(* Keywords: str.strip() and str.lower() *)

Whitespace == {" "}

Keywords == {<<>>, <<" ">>, <<"M">>, <<" ", "m">>}

LowerChar(c) == IF c = "M" THEN "m" ELSE c

Lower(s) == [i \in DOMAIN s |-> LowerChar(s[i])]

RECURSIVE LStrip(_)
LStrip(s) ==
    IF s # <<>> /\ Head(s) \in Whitespace THEN LStrip(Tail(s)) ELSE s

RECURSIVE RStrip(_)
RStrip(s) ==
    IF s # <<>> /\ s[Len(s)] \in Whitespace
    THEN RStrip(SubSeq(s, 1, Len(s) - 1))
    ELSE s

Strip(s) == RStrip(LStrip(s))

(* The keyword identity of the cache contract: trimmed and lowercased *)
Normalize(k) == Lower(Strip(k))

NormalizedKeys == {Normalize(k) : k \in Keywords}

----------------------------------------------------------------------------
(* datetime.isoformat / datetime.fromisoformat, json.dumps / json.loads *)

IsoFormat(t) == <<t \div 24, t % 24>>

FromIsoFormat(s) == s[1] * 24 + s[2]

JsonDumps(d) ==
    <<d.keyword, d.demandScore, d.supplyCount, d.opportunityScore, d.status,
      d.from_cache>>

JsonLoads(j) ==
    [keyword |-> j[1], demandScore |-> j[2], supplyCount |-> j[3],
     opportunityScore |-> j[4], status |-> j[5], from_cache |-> j[6]]

----------------------------------------------------------------------------
(* Rounding of a quotient a / b (b > 0, a >= 0) to the nearest integer, ties to even: round() *)

RoundDiv(a, b) ==
    LET q == a \div b
        r == a % b
    IN  IF 2 * r < b THEN q
        ELSE IF 2 * r > b THEN q + 1
        ELSE IF q % 2 = 0 THEN q ELSE q + 1

(* calculate_opportunity_score: raw score and three-way market status *)

(* Faulty variant: only a non-positive supply is treated as near-zero *)
OpportunityRawZeroOnly(demand, supply) ==
    IF supply <= 0
    THEN 10000
    ELSE RoundDiv(demand * 10000, supply)

OpportunityRaw(demand, supply) ==
    IF supply = 0 \/ supply < 100
    THEN 10000
    ELSE RoundDiv(demand * 10000, supply)

OpportunityStatus(raw) ==
    IF raw >= 1000 THEN "Blue Ocean"
    ELSE IF raw >= 300 THEN "Neutral"
    ELSE "Red Ocean"

(* The auxiliary analysis text, with its own thresholds *)
OpportunityAnalysis(demand, supply) ==
    LET raw == OpportunityRaw(demand, supply)
    IN  IF supply = 0 \/ supply < 100 THEN "Very low supply - high opportunity"
        ELSE IF raw >= 2000 THEN "Excellent demand/supply ratio"
        ELSE IF raw >= 1000 THEN "Good opportunity - moderate competition"
        ELSE IF raw >= 500 THEN "Average market - consider niche variations"
        ELSE IF raw >= 300 THEN "Competitive market - need differentiation"
        ELSE "Saturated market - high competition"

CalculateOpportunityScore(demand, supply) ==
    LET raw == OpportunityRaw(demand, supply)
    IN  [raw |-> raw, status |-> OpportunityStatus(raw),
         analysis |-> OpportunityAnalysis(demand, supply)]

(* Inputs calculate_opportunity_score is applied to *)
OppDemands == {0, 1, 29, 30, 50, 100}

OppSupplies == {-5, 0, 1, 50, 99, 100, 101, 334, 500, 1000, 1001, 1003, 3000,
                3334, 20000}

(* What the demand and supply providers may answer: <<current, weighted_average>> *)
Observations == {<<50, 50>>, <<50, 20000>>}

----------------------------------------------------------------------------
(* Cache functions.  fail = TRUE is the sqlite3 / json exception caught by *)
(* the function's except clause.                                           *)

CacheRows(keyword) == {r \in cache : r.keyword = keyword}

(* Faulty variant: an entry exactly CACHE_EXPIRY_HOURS old is still served *)
GetCachedResultInclusive(keyword, fail) ==
    IF fail THEN None
    ELSE LET rows == CacheRows(Lower(keyword))
         IN  IF rows = {} THEN None
             ELSE LET row == CHOOSE r \in rows : TRUE
                      timestamp == FromIsoFormat(row.timestamp)
                  IN  IF now - timestamp <= CACHE_EXPIRY_HOURS
                      THEN <<JsonLoads(row.data)>>
                      ELSE None

(* get_cached_result: SELECT by keyword.lower(), fresh while strictly younger *)
(* than CACHE_EXPIRY_HOURS                                                     *)
GetCachedResult(keyword, fail) ==
    IF fail THEN None
    ELSE LET rows == CacheRows(Lower(keyword))
         IN  IF rows = {} THEN None
             ELSE LET row == CHOOSE r \in rows : TRUE
                      timestamp == FromIsoFormat(row.timestamp)
                  IN  IF now - timestamp < CACHE_EXPIRY_HOURS
                      THEN <<JsonLoads(row.data)>>
                      ELSE None

(* Faulty variant: the key is stored without lowercasing *)
SaveToCacheNoLower(keyword, data, fail) ==
    IF fail THEN cache
    ELSE {r \in cache : r.keyword # keyword}
         \cup {[keyword |-> keyword, data |-> JsonDumps(data),
                timestamp |-> IsoFormat(now)]}

(* Faulty variant: INSERT OR IGNORE instead of REPLACE, an existing row wins *)
SaveToCacheInsertIgnore(keyword, data, fail) ==
    IF fail \/ CacheRows(Lower(keyword)) # {} THEN cache
    ELSE cache \cup {[keyword |-> Lower(keyword), data |-> JsonDumps(data),
                      timestamp |-> IsoFormat(now)]}

(* save_to_cache: REPLACE INTO cache deletes the row with the same primary *)
(* key and inserts the new one                                             *)
SaveToCache(keyword, data, fail) ==
    IF fail THEN cache
    ELSE {r \in cache : r.keyword # Lower(keyword)}
         \cup {[keyword |-> Lower(keyword), data |-> JsonDumps(data),
                timestamp |-> IsoFormat(now)]}

(* Faulty variant: a keyword's earlier records are overwritten *)
SaveToHistoryUpsert(keyword, score, fail) ==
    IF fail THEN history
    ELSE LET row == [id |-> nextId, keyword |-> keyword,
                     timestamp |-> IsoFormat(now), score |-> score]
             old == {i \in DOMAIN history : history[i].keyword = keyword}
         IN  IF old = {} THEN Append(history, row)
             ELSE [i \in DOMAIN history |-> IF i \in old THEN row ELSE history[i]]

(* Faulty variant: the record is inserted twice *)
SaveToHistoryTwice(keyword, score, fail) ==
    IF fail THEN history
    ELSE LET row == [id |-> nextId, keyword |-> keyword,
                     timestamp |-> IsoFormat(now), score |-> score]
         IN  Append(Append(history, row), row)

(* save_to_history: INSERT INTO history, id from AUTOINCREMENT, timestamp *)
(* from the column default                                               *)
SaveToHistory(keyword, score, fail) ==
    IF fail THEN history
    ELSE Append(history, [id |-> nextId, keyword |-> keyword,
                          timestamp |-> IsoFormat(now), score |-> score])

(* Faulty variant: a hit renews the timestamp of the entry it read *)
CacheTouchedOnHit(keyword) ==
    {IF r.keyword = Lower(keyword) THEN [r EXCEPT !.timestamp = IsoFormat(now)] ELSE r :
        r \in cache}

(* The cache table after a hit: analyze sets from_cache on the loaded copy *)
(* and returns, no statement writes                                        *)
CacheAfterHit(keyword) == cache

(* Faulty variant: the storage exception leaves the function *)
Uncaught(fail) == fail

(* Whether a storage exception leaves the function: each body is wrapped in *)
(* try / except Exception, which prints and swallows it.                    *)

GetCachedResultRaises(fail) == FALSE

SaveToCacheRaises(fail) == FALSE

SaveToHistoryRaises(fail) == FALSE

----------------------------------------------------------------------------
(* Per-request record of what the handler did (history variable) *)

NoTrace == [op |-> "none", raw |-> <<>>, rd |-> "none", fetched |-> FALSE,
            wr |-> "none", hs |-> "none", hid |-> 0, cleared |-> FALSE]

NoResp == [status |-> 0, body |-> None]

Ok(body) == [status |-> 200, body |-> body]

HttpError(code) == [status |-> code, body |-> None]

(* A worker takes its next request when it has none or has answered the last *)
Free(p) == pc[p] \in {"idle", "done"}

(* A DELETE /cache transaction of another connection holds the write lock *)
WriteLocked(p) == \E q \in Procs \ {p} : pc[q] \in {"clr_cache", "clr_history"}

InitDb ==
    /\ now = 0
    /\ cache = {}
    /\ history = <<>>
    /\ nextId = 1
    /\ pc = [p \in Procs |-> "idle"]
    /\ kw = [p \in Procs |-> <<>>]
    /\ res = [p \in Procs |-> None]
    /\ resp = [p \in Procs |-> NoResp]
    /\ tr = [p \in Procs |-> NoTrace]
    /\ lastWrite = [k \in NormalizedKeys |-> None]
    /\ nreq = 0

Init ==
    /\ InitDb
    /\ fin = None
    /\ fout = None

(* The clock advances *)
Tick ==
    /\ now + TickHours <= MaxClock
    /\ now' = now + TickHours
    /\ UNCHANGED <<cache, history, nextId, pc, kw, res, resp, tr, lastWrite, nreq>>
    /\ UNCHANGED fnvars

----------------------------------------------------------------------------
(* GET /analyze *)

(* Empty, or nothing but whitespace *)
KeywordMissingOrBlank(keyword) == Strip(keyword) = <<>>

(* `if not keyword`, evaluated before keyword.strip() *)
KeywordMissing(keyword) == keyword = <<>>

AnalyzeReject(p) ==
    /\ Free(p)
    /\ nreq < MaxRequests
    /\ \E k \in Keywords :
          /\ KeywordMissing(k)
          /\ tr' = [tr EXCEPT ![p] = [NoTrace EXCEPT !.op = "analyze", !.raw = k]]
    /\ resp' = [resp EXCEPT ![p] = HttpError(400)]
    /\ pc' = [pc EXCEPT ![p] = "done"]
    /\ kw' = [kw EXCEPT ![p] = <<>>]
    /\ res' = [res EXCEPT ![p] = None]
    /\ nreq' = nreq + 1
    /\ UNCHANGED <<now, cache, history, nextId, lastWrite>>
    /\ UNCHANGED fnvars

(* Check the cache; on a miss fetch demand and supply, score, assemble the result *)
AnalyzeCheck(p) ==
    /\ Free(p)
    /\ nreq < MaxRequests
    /\ \E k \in Keywords, fail \in BOOLEAN, obs \in Observations :
          /\ ~KeywordMissing(k)
          /\ LET keyword == Strip(k)
                 cached == GetCachedResult(keyword, fail)
                 opportunity == CalculateOpportunityScore(obs[1], obs[2])
                 result == [keyword |-> keyword,
                            demandScore |-> obs[1],
                            supplyCount |-> obs[2],
                            opportunityScore |-> opportunity.raw,
                            status |-> opportunity.status,
                            from_cache |-> FALSE]
             IN  /\ kw' = [kw EXCEPT ![p] = keyword]
                 /\ IF GetCachedResultRaises(fail)
                    THEN /\ resp' = [resp EXCEPT ![p] = HttpError(500)]
                         /\ pc' = [pc EXCEPT ![p] = "done"]
                         /\ tr' = [tr EXCEPT ![p] = [NoTrace EXCEPT
                                     !.op = "analyze", !.raw = k, !.rd = "fail"]]
                         /\ res' = [res EXCEPT ![p] = None]
                         /\ UNCHANGED cache
                    ELSE IF cached # None
                    THEN LET body == <<[cached[1] EXCEPT !.from_cache = TRUE]>>
                         IN  /\ res' = [res EXCEPT ![p] = body]
                             /\ cache' = CacheAfterHit(keyword)
                             /\ resp' = [resp EXCEPT ![p] = Ok(body)]
                             /\ pc' = [pc EXCEPT ![p] = "done"]
                             /\ tr' = [tr EXCEPT ![p] = [NoTrace EXCEPT
                                         !.op = "analyze", !.raw = k, !.rd = "hit"]]
                    ELSE /\ res' = [res EXCEPT ![p] = <<result>>]
                         /\ pc' = [pc EXCEPT ![p] = "save_cache"]
                         /\ tr' = [tr EXCEPT ![p] = [NoTrace EXCEPT
                                     !.op = "analyze", !.raw = k, !.fetched = TRUE,
                                     !.rd = IF fail THEN "fail" ELSE "miss"]]
                         /\ resp' = [resp EXCEPT ![p] = NoResp]
                         /\ UNCHANGED cache
    /\ nreq' = nreq + 1
    /\ UNCHANGED <<now, history, nextId, lastWrite>>
    /\ UNCHANGED fnvars

SaveCache(p) ==
    /\ pc[p] = "save_cache"
    /\ \E fail \in BOOLEAN :
          /\ WriteLocked(p) => fail
          /\ cache' = SaveToCache(kw[p], res[p][1], fail)
          /\ lastWrite' =
                IF fail THEN lastWrite
                ELSE [lastWrite EXCEPT ![Normalize(tr[p].raw)] =
                         <<[data |-> res[p][1], t |-> now, by |-> p,
                            raw |-> tr[p].raw]>>]
          /\ tr' = [tr EXCEPT ![p].wr = IF fail THEN "fail" ELSE "ok"]
          /\ IF SaveToCacheRaises(fail)
             THEN /\ resp' = [resp EXCEPT ![p] = HttpError(500)]
                  /\ pc' = [pc EXCEPT ![p] = "done"]
             ELSE /\ pc' = [pc EXCEPT ![p] = "save_history"]
                  /\ UNCHANGED resp
    /\ UNCHANGED <<now, history, nextId, kw, res, nreq>>
    /\ UNCHANGED fnvars

SaveHistory(p) ==
    /\ pc[p] = "save_history"
    /\ \E fail \in BOOLEAN :
          /\ WriteLocked(p) => fail
          /\ history' = SaveToHistory(kw[p], res[p][1].opportunityScore, fail)
          /\ nextId' = IF fail THEN nextId ELSE nextId + 1
          /\ tr' = [tr EXCEPT ![p].hs = IF fail THEN "fail" ELSE "ok",
                              ![p].hid = IF fail THEN 0 ELSE nextId]
          /\ resp' = [resp EXCEPT ![p] = IF SaveToHistoryRaises(fail)
                                         THEN HttpError(500)
                                         ELSE Ok(res[p])]
    /\ pc' = [pc EXCEPT ![p] = "done"]
    /\ UNCHANGED <<now, cache, kw, res, lastWrite, nreq>>
    /\ UNCHANGED fnvars

----------------------------------------------------------------------------
(* DELETE /cache: two DELETE statements in one implicit transaction, then commit. *)
(* A statement executed inside the transaction leaves the committed table as it   *)
(* is; an exception before commit drops the connection and rolls back.            *)

(* Faulty variant: the first DELETE is committed on its own *)
DeleteCacheAutocommit(c) == {}

DeleteCachePending(c) == c

DeleteHistoryPending(h) == h

ClearDeleteCache(p) ==
    /\ Free(p)
    /\ nreq < MaxRequests
    /\ \E fail \in BOOLEAN :
          /\ WriteLocked(p) => fail
          /\ IF fail
             THEN /\ resp' = [resp EXCEPT ![p] = HttpError(500)]
                  /\ pc' = [pc EXCEPT ![p] = "done"]
                  /\ UNCHANGED cache
             ELSE /\ pc' = [pc EXCEPT ![p] = "clr_cache"]
                  /\ cache' = DeleteCachePending(cache)
                  /\ resp' = [resp EXCEPT ![p] = NoResp]
    /\ tr' = [tr EXCEPT ![p] = [NoTrace EXCEPT !.op = "clear"]]
    /\ kw' = [kw EXCEPT ![p] = <<>>]
    /\ res' = [res EXCEPT ![p] = None]
    /\ nreq' = nreq + 1
    /\ UNCHANGED <<now, history, nextId, lastWrite>>
    /\ UNCHANGED fnvars

ClearDeleteHistory(p) ==
    /\ pc[p] = "clr_cache"
    /\ \E fail \in BOOLEAN :
          IF fail
          THEN /\ resp' = [resp EXCEPT ![p] = HttpError(500)]
               /\ pc' = [pc EXCEPT ![p] = "done"]
               /\ UNCHANGED history
          ELSE /\ pc' = [pc EXCEPT ![p] = "clr_history"]
               /\ history' = DeleteHistoryPending(history)
               /\ UNCHANGED resp
    /\ UNCHANGED <<now, cache, nextId, kw, res, tr, lastWrite, nreq>>
    /\ UNCHANGED fnvars

ClearCommit(p) ==
    /\ pc[p] = "clr_history"
    /\ \E fail \in BOOLEAN :
          IF fail
          THEN /\ resp' = [resp EXCEPT ![p] = HttpError(500)]
               /\ UNCHANGED <<cache, history, lastWrite, tr>>
          ELSE /\ cache' = {}
               /\ history' = <<>>
               /\ resp' = [resp EXCEPT ![p] = Ok(None)]
               /\ lastWrite' = [k \in NormalizedKeys |-> None]
               /\ tr' = [q \in Procs |->
                           IF tr[q].op = "analyze"
                           THEN [tr[q] EXCEPT !.cleared = TRUE]
                           ELSE tr[q]]
    /\ pc' = [pc EXCEPT ![p] = "done"]
    /\ UNCHANGED <<now, nextId, kw, res, nreq>>
    /\ UNCHANGED fnvars

Next ==
    \/ Tick
    \/ \E p \in Procs :
          \/ AnalyzeReject(p)
          \/ AnalyzeCheck(p)
          \/ SaveCache(p)
          \/ SaveHistory(p)
          \/ ClearDeleteCache(p)
          \/ ClearDeleteHistory(p)
          \/ ClearCommit(p)

Spec == Init /\ [][Next]_vars

----------------------------------------------------------------------------
(* Pure functions.  A Python float is a fixed-point number counted in        *)
(* hundredths (Scale units per 1.0); an arithmetic step rounds to the        *)
(* nearest unit.  A value reported through round(x, 1) is counted in tenths. *)

Scale == 10 * 10

Max(a, b) == IF a >= b THEN a ELSE b

Min(a, b) == IF a <= b THEN a ELSE b

(* a / b for b > 0, to the nearest unit *)
RoundNearest(a, b) == (2 * a + b) \div (2 * b)

(* round(x, 1) of a non-negative fixed-point x, as tenths *)
Round1(x) == RoundDiv(x, Scale \div 10)

RECURSIVE SumSeq(_)
SumSeq(s) == IF s = <<>> THEN 0 ELSE Head(s) + SumSeq(Tail(s))

RECURSIVE SqrtIter(_, _, _)
SqrtIter(x, lo, hi) ==
    IF lo >= hi THEN lo
    ELSE LET mid == (lo + hi + 1) \div 2
         IN  IF mid * mid <= x THEN SqrtIter(x, mid, hi)
             ELSE SqrtIter(x, lo, mid - 1)

(* math.sqrt of a value counted in Scale^2 units, result in Scale units *)
Sqrt(x) == SqrtIter(x, 0, 46340)

(* math.sin(i * math.pi / 3.5) * 3, period 7 *)
Seasonality(i) == <<0, 235, 292, 130, -130, -292, -235>>[(i % 7) + 1]

(* Bounds of the inputs the pure functions are applied to *)
MaxHistoryLen == 4

MaxDays == 8

Samples == {0, 50, 100}

RECURSIVE SeqsUpTo(_, _)
SeqsUpTo(S, n) ==
    IF n = 0 THEN {<<>>}
    ELSE LET shorter == SeqsUpTo(S, n - 1)
         IN  shorter \cup {Append(t, x) : t \in {u \in shorter : Len(u) = n - 1}, x \in S}

Histories == SeqsUpTo(Samples, MaxHistoryLen)

----------------------------------------------------------------------------
(* generate_prophet_forecast *)

(* Faulty variant: the prediction is not clamped *)
NoClamp(x) == x

(* max(0, min(100, predicted)) *)
ClampPredicted(x) == Max(0, Min(100 * Scale, x))

GenerateProphetForecast(h0, days) ==
    LET hist == IF Len(h0) < 3 THEN [i \in 1..7 |-> 50] ELSE h0
        n == Len(hist)
        \* x_mean = (n - 1) / 2 and i - x_mean are kept doubled
        xMean2 == n - 1
        Dx2(i) == 2 * (i - 1) - xMean2
        yMean == RoundNearest(SumSeq(hist) * Scale, n)
        numerator2 == SumSeq([i \in 1..n |-> Dx2(i) * (hist[i] * Scale - yMean)])
        denominator4 == SumSeq([i \in 1..n |-> Dx2(i) * Dx2(i)])
        slope == IF denominator4 # 0
                 THEN RoundNearest(2 * numerator2, denominator4)
                 ELSE 0
        inSample == [i \in 1..n |-> yMean + RoundNearest(slope * Dx2(i), 2)]
        residuals == [i \in 1..n |-> hist[i] * Scale - inSample[i]]
        mse == SumSeq([i \in 1..n |-> residuals[i] * residuals[i]]) \div Max(n - 2, 1)
        stdError == Sqrt(mse)
        lastValue == hist[n] * Scale
        Point(i) ==
            LET predicted == ClampPredicted(lastValue + slope * (i + 1) + Seasonality(i))
                root == Sqrt(((n + i + 1) * Scale * Scale) \div n)
                width0 == RoundNearest(RoundNearest(stdError * 196, 100) * root, Scale)
                width == Max(5 * Scale, Min(25 * Scale, width0 + i * 2 * Scale))
            IN  [day |-> i + 1,
                 predicted |-> Round1(predicted),
                 lower |-> Round1(Max(0, predicted - width)),
                 upper |-> Round1(Min(100 * Scale, predicted + width)),
                 confidence |-> (95 - i * 3) * 10]
    IN  [d \in 1..days |-> Point(d - 1)]

InitForecast ==
    /\ InitDb
    /\ fin \in {<<[history |-> h, days |-> d]>> : h \in Histories, d \in 0..MaxDays}
    /\ fout = None

Forecast ==
    /\ fin # None
    /\ fout = None
    /\ fout' = <<GenerateProphetForecast(fin[1].history, fin[1].days)>>
    /\ UNCHANGED fin
    /\ UNCHANGED dbvars

SpecForecast == InitForecast /\ [][Forecast]_vars

----------------------------------------------------------------------------
(* NICHE_CATEGORIES: growth_factor (in hundredths) and seasonality class *)

NicheCategories ==
    {[name |-> "Technology", growth_factor |-> 120, seasonality |-> "low"],
     [name |-> "Lifestyle", growth_factor |-> 110, seasonality |-> "medium"],
     [name |-> "Sustainability", growth_factor |-> 130, seasonality |-> "low"],
     [name |-> "Business", growth_factor |-> 100, seasonality |-> "low"],
     [name |-> "Health", growth_factor |-> 115, seasonality |-> "medium"],
     [name |-> "Food", growth_factor |-> 110, seasonality |-> "high"],
     [name |-> "Travel", growth_factor |-> 100, seasonality |-> "high"],
     [name |-> "Creative", growth_factor |-> 125, seasonality |-> "low"],
     [name |-> "Finance", growth_factor |-> 110, seasonality |-> "low"],
     [name |-> "Seasonal", growth_factor |-> 100, seasonality |-> "very_high"]}

(* calculate_niche_score_advanced: the five components, in Scale units *)

(* 1. min(100, demand / supply * 1000); supply == 0 gives 100 *)
OpportunityComponent(demand, supply) ==
    IF supply = 0 THEN 100 * Scale
    ELSE Min(100 * Scale, RoundNearest(demand * 1000 * Scale, supply))

(* 2. (growth + 30) * (100 / 80), clamped, times growth_factor, capped *)
GrowthComponent(growth, growth_factor) ==
    LET growth_normalized == RoundNearest((growth + 30 * Scale) * 5, 4)
        growth_score == Max(0, Min(100 * Scale, growth_normalized))
    IN  Min(100 * Scale, RoundNearest(growth_score * growth_factor, 100))

(* math.log10 in hundredths, tabulated at the supplies above 100000 that are drawn *)
Log10(supply) ==
    CASE supply = 120000 -> 508
      [] supply = 10000000 -> 700

(* 3. supply buckets, then max(5, 100 - log10(supply) * 15) *)
CompetitionComponent(supply) ==
    IF supply <= 500 THEN 100 * Scale
    ELSE IF supply <= 5000 THEN 85 * Scale
    ELSE IF supply <= 20000 THEN 65 * Scale
    ELSE IF supply <= 100000 THEN 40 * Scale
    ELSE Max(5 * Scale, 100 * Scale - RoundNearest(Log10(supply) * 15 * Scale, 100))

PeakMonths(seasonality) ==
    CASE seasonality = "very_high" -> {11, 12, 1, 2}
      [] seasonality = "high" -> {6, 7, 8, 12}
      [] seasonality = "medium" -> {1, 5, 9}
      [] seasonality = "low" -> 1..12
      [] OTHER -> {}

(* 4. seasonality bonus *)
SeasonalityComponent(seasonality, current_month) ==
    IF current_month \in PeakMonths(seasonality)
    THEN (IF seasonality = "very_high" THEN 90
          ELSE IF seasonality = "high" THEN 70 ELSE 50) * Scale
    ELSE (IF seasonality = "very_high" THEN 40
          ELSE IF seasonality = "high" THEN 50 ELSE 60) * Scale

(* Population standard deviation of a non-empty series *)
StdDev(hist) ==
    LET n == Len(hist)
        mean == RoundNearest(SumSeq(hist) * Scale, n)
        variance == SumSeq([i \in 1..n |->
                              (hist[i] * Scale - mean) * (hist[i] * Scale - mean)]) \div n
    IN  Sqrt(variance)

(* 5. max(0, 100 - std_dev * 3) with at least 4 samples, else 50 *)
StabilityComponent(hist) ==
    IF Len(hist) >= 4 THEN Max(0, 100 * Scale - StdDev(hist) * 3)
    ELSE 50 * Scale

(* Faulty variant: opportunity weighted 0.40 *)
WeightedSumSkewed(opp, growth, competition, seasonality, stability) ==
    opp * 40 + growth * 25 + competition * 20 + seasonality * 10 + stability * 10

(* The weighted sum, in units of 1 / (100 * Scale) *)
WeightedSum(opp, growth, competition, seasonality, stability) ==
    opp * 35 + growth * 25 + competition * 20 + seasonality * 10 + stability * 10

NicheFinalScore(demand, supply, growth, trend_data, category_info, current_month) ==
    WeightedSum(OpportunityComponent(demand, supply),
                GrowthComponent(growth, category_info.growth_factor),
                CompetitionComponent(supply),
                SeasonalityComponent(category_info.seasonality, current_month),
                StabilityComponent(trend_data.history))

(* The tier, decided on the weighted sum before it is rounded *)
TierOf(final_score) ==
    IF final_score >= 80 * 100 * Scale THEN "S"
    ELSE IF final_score >= 65 * 100 * Scale THEN "A"
    ELSE IF final_score >= 50 * 100 * Scale THEN "B"
    ELSE IF final_score >= 35 * 100 * Scale THEN "C"
    ELSE "D"

(* Values reported through round(x, 1) are in tenths; weights in hundredths *)
CalculateNicheScoreAdvanced(demand, supply, growth, trend_data, category_info, current_month) ==
    LET final_score == NicheFinalScore(demand, supply, growth, trend_data,
                                       category_info, current_month)
        confidence == Min(95 * Scale,
                          (IF trend_data.source = "google_trends_real" THEN 85 ELSE 55)
                              * Scale + demand * (Scale \div 10))
    IN  [finalScore |-> RoundDiv(final_score, 100 * (Scale \div 10)),
         components |->
            [opportunity |-> Round1(OpportunityComponent(demand, supply)),
             growth |-> Round1(GrowthComponent(growth, category_info.growth_factor)),
             competition |-> Round1(CompetitionComponent(supply)),
             seasonality |-> Round1(SeasonalityComponent(category_info.seasonality,
                                                         current_month)),
             stability |-> Round1(StabilityComponent(trend_data.history))],
         weights |-> [opportunity |-> 35, growth |-> 25, competition |-> 20,
                      seasonality |-> 10, stability |-> 10],
         confidence |-> Round1(confidence),
         tier |-> TierOf(final_score),
         growth_factor_applied |-> category_info.growth_factor,
         seasonality_type |-> category_info.seasonality,
         data_source |-> trend_data.source]

(* Inputs the niche score is applied to *)
Demands == {0, 40, 80, 100}

Supplies == {0, 500, 5000, 20000, 100000, 120000, 10000000}

Growths == {-40 * Scale, -1 * Scale, 20 * Scale, 60 * Scale}

Months == 1..12

NicheHistories == {<<>>, <<50, 50, 50, 50>>, <<0, 100, 0, 100>>}

Sources == {"google_trends_real", "quick_estimate"}

InitNiche ==
    /\ InitDb
    /\ fin \in {<<[demand |-> d, supply |-> s, growth |-> g,
                   trend_data |-> [history |-> h, source |-> src],
                   category_info |-> c, current_month |-> m]>> :
                  d \in Demands, s \in Supplies, g \in Growths, h \in NicheHistories,
                  src \in Sources, c \in NicheCategories, m \in Months}
    /\ fout = None

NicheScore ==
    /\ fin # None
    /\ fout = None
    /\ fout' = <<CalculateNicheScoreAdvanced(fin[1].demand, fin[1].supply,
                     fin[1].growth, fin[1].trend_data, fin[1].category_info,
                     fin[1].current_month)>>
    /\ UNCHANGED fin
    /\ UNCHANGED dbvars

SpecNiche == InitNiche /\ [][NicheScore]_vars

----------------------------------------------------------------------------
(* calculate_opportunity_score applied to drawn inputs *)

InitOpportunity ==
    /\ InitDb
    /\ fin \in {<<[demand |-> d, supply |-> s]>> : d \in OppDemands, s \in OppSupplies}
    /\ fout = None

OpportunityScore ==
    /\ fin # None
    /\ fout = None
    /\ fout' = <<CalculateOpportunityScore(fin[1].demand, fin[1].supply)>>
    /\ UNCHANGED fin
    /\ UNCHANGED dbvars

SpecOpportunity == InitOpportunity /\ [][OpportunityScore]_vars

----------------------------------------------------------------------------
(* calculate_competition_index *)

(* Faulty variant: the first threshold is inclusive *)
CompetitionBucketInclusive(total) ==
    IF total <= 1000 THEN 1
    ELSE IF total < 5000 THEN 2
    ELSE IF total < 20000 THEN 3
    ELSE IF total < 100000 THEN 4
    ELSE IF total < 500000 THEN 5
    ELSE 6

(* The if / elif chain on total: the branch taken, first to last *)
CompetitionBucket(total) ==
    IF total < 1000 THEN 1
    ELSE IF total < 5000 THEN 2
    ELSE IF total < 20000 THEN 3
    ELSE IF total < 100000 THEN 4
    ELSE IF total < 500000 THEN 5
    ELSE 6

CompetitionLevels ==
    <<[level |-> "Very Low", score |-> 95,
       advice |-> "Excellent opportunity - first mover advantage"],
      [level |-> "Low", score |-> 80,
       advice |-> "Good niche - limited competition"],
      [level |-> "Moderate", score |-> 60,
       advice |-> "Standard market - quality matters"],
      [level |-> "High", score |-> 35,
       advice |-> "Competitive - need unique perspective"],
      [level |-> "Very High", score |-> 15,
       advice |-> "Saturated - consider niche variations"],
      [level |-> "Extreme", score |-> 5,
       advice |-> "Oversaturated - avoid unless exceptional"]>>

CalculateCompetitionIndex(supply_data) ==
    LET total == supply_data.weighted_average
        sources == supply_data.sources_available
        branch == CompetitionLevels[CompetitionBucket(total)]
    IN  [level |-> branch.level,
         score |-> branch.score,
         total_supply |-> total,
         sources_checked |-> sources,
         advice |-> branch.advice]

(* Inputs calculate_competition_index is applied to *)
SupplyTotals == {0, 1, 800, 999, 1000, 1001, 4999, 5000, 19999, 20000, 99999,
                 100000, 499999, 500000, 600000}

SourcesAvailable == 0..3

InitCompetition ==
    /\ InitDb
    /\ fin \in {<<[weighted_average |-> t, sources_available |-> n]>> :
                  t \in SupplyTotals, n \in SourcesAvailable}
    /\ fout = None

CompetitionIndex ==
    /\ fin # None
    /\ fout = None
    /\ fout' = <<CalculateCompetitionIndex(fin[1])>>
    /\ UNCHANGED fin
    /\ UNCHANGED dbvars

SpecCompetition == InitCompetition /\ [][CompetitionIndex]_vars

----------------------------------------------------------------------------
(* fetch_google_trends_data *)

(* round(x, 1) of a fixed-point x of either sign, as tenths *)
Round1Signed(x) == IF x >= 0 THEN Round1(x) ELSE -Round1(-x)

RECURSIVE MaxSeq(_)
MaxSeq(s) == IF Len(s) = 1 THEN s[1] ELSE Max(Head(s), MaxSeq(Tail(s)))

RECURSIVE MinSeq(_)
MinSeq(s) == IF Len(s) = 1 THEN s[1] ELSE Min(Head(s), MinSeq(Tail(s)))

(* s[-k:] *)
LastN(s, k) == IF Len(s) <= k THEN s ELSE SubSeq(s, Len(s) - k + 1, Len(s))

(* s[:k] *)
FirstN(s, k) == IF Len(s) <= k THEN s ELSE SubSeq(s, 1, k)

(* Faulty variant: the sum is not divided by the number of values *)
AverageUndivided(values) == SumSeq(values)

(* int(sum(values) / len(values)) of non-negative values *)
AverageOf(values) == SumSeq(values) \div Len(values)

(* ((recent_avg - older_avg) / max(older_avg, 1)) * 100 over the last and *)
(* first four values, in Scale units; 0 with fewer than 8 values          *)
MomentumOf(values) ==
    IF Len(values) >= 8
    THEN LET recent4 == SumSeq(LastN(values, 4))
             older4 == SumSeq(FirstN(values, 4))
         IN  RoundNearest((recent4 - older4) * 100 * Scale, Max(older4, 4))
    ELSE 0

TrendOf(momentum) ==
    IF momentum > 10 * Scale THEN "rising"
    ELSE IF momentum < -10 * Scale THEN "falling"
    ELSE "stable"

(* The measured path: interest_data is not empty and has the keyword column *)
MeasuredSnapshot(values) ==
    [current |-> values[Len(values)],
     average |-> AverageOf(values),
     max |-> MaxSeq(values),
     min |-> MinSeq(values),
     momentum |-> Round1Signed(MomentumOf(values)) * (Scale \div 10),
     trend |-> TrendOf(MomentumOf(values)),
     history |-> IF Len(values) >= 30 THEN LastN(values, 30) ELSE values,
     data_points |-> Len(values),
     source |-> "google_trends_real",
     success |-> TRUE]

(* The fallback: base = random.randint(35, 70) and the other random draws *)
EstimatedSnapshot(base, momentum, trend, offsets) ==
    [current |-> base,
     average |-> base,
     max |-> base + 20,
     min |-> base - 15,
     momentum |-> momentum,
     trend |-> trend,
     history |-> [i \in 1..12 |-> base + offsets[i]],
     data_points |-> 12,
     source |-> "estimated",
     success |-> FALSE]

(* What pytrends answers: a non-empty series, or nothing usable (an empty *)
(* frame, a missing column, an exception), with the fallback's draws      *)
FetchGoogleTrendsData(outcome) ==
    IF outcome.measured
    THEN MeasuredSnapshot(outcome.values)
    ELSE EstimatedSnapshot(outcome.base, outcome.momentum, outcome.trend,
                           outcome.offsets)

TrendSeries ==
    {<<0>>, <<100>>, <<3, 4>>, <<0, 0, 1>>, <<100, 0, 99>>,
     <<10, 10, 10, 10, 50, 50, 50, 50>>,
     <<80, 80, 80, 80, 20, 20, 20, 20>>,
     <<0, 0, 0, 0, 0, 0, 0, 7>>,
     <<50, 51, 50, 51, 50, 51, 50, 51, 50>>,
     [i \in 1..31 |-> (i * 37) % 101]}

OffsetPatterns ==
    {[i \in 1..12 |-> 0],
     [i \in 1..12 |-> IF i % 2 = 0 THEN 8 ELSE -8],
     [i \in 1..12 |-> ((i * 5) % 17) - 8]}

FallbackMomenta == {-10 * Scale, 0, 15 * Scale}

Trends == {"rising", "stable", "falling"}

FetchOutcomes ==
    {[measured |-> TRUE, values |-> v, base |-> 0, momentum |-> 0,
      trend |-> "stable", offsets |-> <<>>] : v \in TrendSeries}
    \cup {[measured |-> FALSE, values |-> <<>>, base |-> b, momentum |-> m,
           trend |-> t, offsets |-> o] :
            b \in {35, 50, 70}, m \in FallbackMomenta, t \in Trends,
            o \in OffsetPatterns}

InitFetch ==
    /\ InitDb
    /\ fin \in {<<o>> : o \in FetchOutcomes}
    /\ fout = None

FetchTrends ==
    /\ fin # None
    /\ fout = None
    /\ fout' = <<FetchGoogleTrendsData(fin[1])>>
    /\ UNCHANGED fin
    /\ UNCHANGED dbvars

SpecFetch == InitFetch /\ [][FetchTrends]_vars

----------------------------------------------------------------------------
(* discover_niches *)

(* NICHE_CATEGORIES in insertion order, and the length of each keyword list; *)
(* a keyword is named by its category and its position in the list          *)
CategoryOrder ==
    <<"Technology", "Lifestyle", "Sustainability", "Business", "Health", "Food",
      "Travel", "Creative", "Finance", "Seasonal">>

CategoryNames == {c.name : c \in NicheCategories}

CategoryInfo(name) == CHOOSE c \in NicheCategories : c.name = name

KeywordCount(name) ==
    CASE name = "Technology" -> 12
      [] name = "Food" -> 8
      [] name = "Finance" -> 8
      [] name = "Seasonal" -> 10
      [] OTHER -> 9

(* The one category named by a valid filter, else all of them *)
SelectedCategories(category) ==
    IF category # "" /\ category \in CategoryNames
    THEN <<category>>
    ELSE CategoryOrder

(* keywords[:4] of every selected category, in iteration order *)
RECURSIVE KeywordsToScore(_)
KeywordsToScore(cats) ==
    IF cats = <<>> THEN <<>>
    ELSE [i \in 1..Min(4, KeywordCount(Head(cats))) |->
             [category |-> Head(cats), position |-> i]]
         \o KeywordsToScore(Tail(cats))

(* The random draws of one call, fixed by a seed and the keyword's rank j *)
DrawBaseDemand(seed, j) == <<40, 62, 85, 71, 55>>[((seed + j) % 5) + 1]

DrawSupply(seed, j) ==
    <<1000, 5000, 20000, 60000, 120000, 100000>>[((2 * seed + 5 * j) % 6) + 1]

DrawOffsets(seed, j) ==
    <<[i \in 1..12 |-> 0],
      [i \in 1..12 |-> IF i % 2 = 0 THEN 10 ELSE -10],
      [i \in 1..12 |-> ((i * 5) % 21) - 10]>>[((seed + 2 * j) % 3) + 1]

(* The quick estimate of the else branch, which assigns base_demand *)
QuickEstimate(seed, j) ==
    LET base_demand == DrawBaseDemand(seed, j)
    IN  [current |-> base_demand,
         history |-> [i \in 1..12 |-> base_demand + DrawOffsets(seed, j)[i]],
         source |-> "quick_estimate"]

(* Whether the local base_demand is bound when the default argument        *)
(* [base_demand] * 12 of trend_data.get is evaluated: it is assigned only   *)
(* on the quick-estimate branch                                             *)
BaseDemandBound(use_real_data) == ~use_real_data

(* ((history[-1] - history[0]) / max(history[0], 1)) * 100, in Scale units *)
GrowthOf(hist, drawn) ==
    IF Len(hist) >= 2
    THEN RoundNearest((hist[Len(hist)] - hist[1]) * 100 * Scale, Max(hist[1], 1))
    ELSE drawn

NicheEntry(kwd, trend_data, supply, current_month) ==
    LET cat_info == CategoryInfo(kwd.category)
        growth == GrowthOf(trend_data.history, 0)
        score_data == CalculateNicheScoreAdvanced(trend_data.current, supply, growth,
                                                  trend_data, cat_info, current_month)
    IN  [keyword |-> kwd.position,
         category |-> kwd.category,
         demand |-> trend_data.current,
         supply |-> supply,
         growth |-> Round1Signed(growth),
         finalScore |-> score_data.finalScore,
         tier |-> score_data.tier,
         data_source |-> score_data.data_source]

(* results.sort(key=finalScore, reverse=True): stable, equal scores keep *)
(* their order                                                           *)
InsertByFinalScore(sorted, e) ==
    LET before == {i \in DOMAIN sorted : sorted[i].finalScore >= e.finalScore}
        k == Cardinality(before)
    IN  SubSeq(sorted, 1, k) \o <<e>> \o SubSeq(sorted, k + 1, Len(sorted))

RECURSIVE SortByFinalScore(_)
SortByFinalScore(results) ==
    IF results = <<>> THEN <<>>
    ELSE InsertByFinalScore(SortByFinalScore(SubSeq(results, 1, Len(results) - 1)),
                            results[Len(results)])

(* results[:limit] *)
Truncate(results, limit) ==
    IF limit >= 0 THEN FirstN(results, limit)
    ELSE FirstN(results, Max(0, Len(results) + limit))

(* max(set(categories_in_top), key=categories_in_top.count): a tie is *)
(* broken by the iteration order of the set                           *)
TopCategories(results) ==
    LET top == FirstN(results, 5)
        Count(c) == Cardinality({i \in DOMAIN top : top[i].category = c})
        cats == {top[i].category : i \in DOMAIN top}
    IN  {c \in cats : \A d \in cats : Count(d) <= Count(c)}

DiscoveryError == [niches |-> <<>>, error |-> "UnboundLocalError: base_demand"]

(* The answers discover_niches may give to one request *)
DiscoverNiches(category, limit, use_real_data, seed, current_month) ==
    LET keywords == KeywordsToScore(SelectedCategories(category))
        unsorted == [j \in DOMAIN keywords |->
                        NicheEntry(keywords[j], QuickEstimate(seed, j),
                                   DrawSupply(seed, j), current_month)]
        results == SortByFinalScore(unsorted)
        n == Len(results)
        Summary(top_category) ==
            [niches |-> Truncate(results, limit),
             totalAnalyzed |-> n,
             averageScore |->
                IF n > 0
                THEN RoundDiv(SumSeq([i \in 1..n |-> results[i].finalScore]), n)
                ELSE 0,
             topCategory |-> top_category,
             sTierCount |-> Cardinality({i \in 1..n : results[i].tier = "S"}),
             aTierCount |-> Cardinality({i \in 1..n : results[i].tier = "A"}),
             useRealData |-> use_real_data]
    IN  IF keywords # <<>> /\ ~BaseDemandBound(use_real_data)
        THEN {DiscoveryError}
        ELSE IF n > 0 THEN {Summary(c) : c \in TopCategories(results)}
        ELSE {Summary("N/A")}

(* Requests to /discover *)
CategoryFilters == {"", "Lifestyle", "Seasonal", "Gardening"}

Limits == {0, 1, 3, 20, 50}

Seeds == 0..2

DiscoverMonths == {1, 7}

InitDiscover ==
    /\ InitDb
    /\ fin \in {<<[category |-> c, limit |-> l, use_real_data |-> u, seed |-> s,
                   current_month |-> m]>> :
                  c \in CategoryFilters, l \in Limits, u \in BOOLEAN, s \in Seeds,
                  m \in DiscoverMonths}
    /\ fout = None

Discover ==
    /\ fin # None
    /\ fout = None
    /\ \E r \in DiscoverNiches(fin[1].category, fin[1].limit, fin[1].use_real_data,
                               fin[1].seed, fin[1].current_month) :
          fout' = <<r>>
    /\ UNCHANGED fin
    /\ UNCHANGED dbvars

SpecDiscover == InitDiscover /\ [][Discover]_vars

----------------------------------------------------------------------------
(* generate_prophet_forecast over long horizons *)

LongHorizons == {7, 32, 33, 34}

InitForecastLong ==
    /\ InitDb
    /\ fin \in {<<[history |-> h, days |-> d]>> :
                  h \in {g \in Histories : Len(g) \in {0, 3}}, d \in LongHorizons}
    /\ fout = None

ForecastLong ==
    /\ fin # None
    /\ fout = None
    /\ fout' = <<GenerateProphetForecast(fin[1].history, fin[1].days)>>
    /\ UNCHANGED fin
    /\ UNCHANGED dbvars

SpecForecastLong == InitForecastLong /\ [][ForecastLong]_vars

----------------------------------------------------------------------------
(* calculate_growth_metrics: growth values in Scale units before rounding *)

(* ((a - b) / max(b, 1)) * 100 for averages a = a4 / 4 and b = b4 / 4 *)
GrowthPercent(a4, b4) == RoundNearest((a4 - b4) * 100 * Scale, Max(b4, 4))

Abs(x) == IF x >= 0 THEN x ELSE -x

StabilityLabel(volatility) ==
    IF volatility < 10 * Scale THEN "High"
    ELSE IF volatility < 20 * Scale THEN "Medium"
    ELSE "Low"

CalculateGrowthMetrics(trend_data) ==
    LET hist == trend_data.history
        n == Len(hist)
        enough == n >= 4
        recent4 == SumSeq(LastN(hist, 4))
        older4 == IF n >= 8 THEN SumSeq(FirstN(hist, 4)) ELSE 4 * hist[1]
        wow_growth == IF enough THEN GrowthPercent(recent4, older4)
                      ELSE trend_data.momentum
        prev4 == SumSeq(SubSeq(hist, n - 7, n - 4))
        mom_growth == IF enough /\ n >= 12 THEN GrowthPercent(recent4, prev4)
                      ELSE wow_growth
        volatility == IF enough THEN StdDev(hist) ELSE 10 * Scale
        trend_strength == IF ~enough THEN "Unknown"
                          ELSE IF Abs(wow_growth) > 20 * Scale THEN "Strong"
                          ELSE IF Abs(wow_growth) > 10 * Scale THEN "Moderate"
                          ELSE "Weak"
    IN  [week_over_week |-> Round1Signed(wow_growth),
         month_over_month |-> Round1Signed(mom_growth),
         volatility |-> Round1(volatility),
         trend_strength |-> trend_strength,
         stability |-> StabilityLabel(volatility)]

(* Inputs calculate_growth_metrics is applied to *)
GrowthHistories ==
    SeqsUpTo(Samples, 3)
    \cup {<<50, 50, 50, 50>>, <<0, 100, 0, 100>>, <<50, 50, 50, 50, 70, 70, 70, 70>>,
          <<10, 20, 30, 40, 50, 60, 70, 80, 90, 100, 90, 80>>,
          <<60, 60, 60, 60, 50, 50, 50, 50, 52, 52, 52, 52>>}

Momenta == {-10 * Scale, -25, 0, 1234, 15 * Scale}

InitGrowth ==
    /\ InitDb
    /\ fin \in {<<[history |-> h, momentum |-> m]>> :
                  h \in GrowthHistories, m \in Momenta}
    /\ fout = None

GrowthMetrics ==
    /\ fin # None
    /\ fout = None
    /\ fout' = <<CalculateGrowthMetrics(fin[1])>>
    /\ UNCHANGED fin
    /\ UNCHANGED dbvars

SpecGrowth == InitGrowth /\ [][GrowthMetrics]_vars

----------------------------------------------------------------------------
(* Helpers of the properties *)

StrippedKeywords == {Strip(k) : k \in Keywords}

Analyzing(p) == tr[p].op = "analyze" /\ ~KeywordMissing(tr[p].raw)

Missed(p) == Analyzing(p) /\ tr[p].rd \in {"miss", "fail"}

IsPrefix(s, t) == Len(s) <= Len(t) /\ SubSeq(t, 1, Len(s)) = s

RowsOfKey(key) == {r \in cache : Normalize(r.keyword) = key}

HistoryOf(p) == {i \in DOMAIN history : history[i].id = tr[p].hid}

(* C1: after save_to_cache(k, r) at time t, with no later write or clear for *)
(* k, get_cached_result(k) returns a result equal to r while now - t < 24    *)
(* hours and None once now - t >= 24 hours; it returns None for a key that   *)
(* was never written.                                                        *)
C1_GetAfterPut ==
    \A k \in StrippedKeywords :
        LET lw == lastWrite[Lower(k)]
        IN  GetCachedResult(k, FALSE) =
                IF lw # None /\ now - lw[1].t < 24 THEN <<lw[1].data>> ELSE None

C1_Witness ==
    \E k1, k2 \in StrippedKeywords :
        /\ lastWrite[Lower(k1)] # None
        /\ now - lastWrite[Lower(k1)][1].t >= 24
        /\ GetCachedResult(k1, FALSE) = None
        /\ lastWrite[Lower(k2)] # None
        /\ now - lastWrite[Lower(k2)][1].t < 24
        /\ GetCachedResult(k2, FALSE) = <<lastWrite[Lower(k2)][1].data>>

(* C2: keyword identity is case-insensitive: when an analysis of a keyword   *)
(* left a result in the cache, an analysis of any keyword equal to it after  *)
(* trimming and lowercasing that follows within the expiry window (no clear  *)
(* in between, cache read succeeding) returns that result with from_cache =  *)
(* TRUE.                                                                     *)
C2_CaseInsensitiveHit ==
    [][\A p \in Procs :
          (Free(p) /\ pc'[p] \in {"done", "save_cache"} /\ nreq' = nreq + 1
             /\ (pc'[p] # pc[p] \/ tr'[p] # tr[p] \/ resp'[p] # resp[p])
             /\ tr'[p].op = "analyze" /\ ~KeywordMissing(tr'[p].raw)
             /\ tr'[p].rd # "fail")
          => LET lw == lastWrite[Normalize(tr'[p].raw)]
             IN  (lw # None /\ now - lw[1].t < 24)
                 => /\ tr'[p].rd = "hit"
                    /\ pc'[p] = "done"
                    /\ resp'[p] = Ok(<<[lw[1].data EXCEPT !.from_cache = TRUE]>>)]_vars

C2_Witness ==
    \E p \in Procs :
        /\ Analyzing(p) /\ tr[p].rd = "hit" /\ pc[p] = "done"
        /\ lastWrite[Normalize(tr[p].raw)] # None
        /\ lastWrite[Normalize(tr[p].raw)][1].raw # tr[p].raw
        /\ resp[p].body[1].keyword # Strip(tr[p].raw)
        /\ resp[p].body[1].from_cache = TRUE

(* C3: analyze checks the cache first.  On a miss it runs the pipeline, then *)
(* writes the result to the cache under the normalized keyword, then appends *)
(* exactly one history record with the opportunity score, and returns the    *)
(* result with from_cache = FALSE.  On a hit it returns the cached result    *)
(* with from_cache = TRUE without fetching demand or supply (and without any *)
(* write).                                                                   *)
C3_AnalyzeFlow ==
    \A p \in Procs :
        Analyzing(p) =>
            /\ tr[p].rd = "hit" =>
                  /\ pc[p] = "done"
                  /\ ~tr[p].fetched /\ tr[p].wr = "none" /\ tr[p].hs = "none"
                  /\ resp[p].status = 200
                  /\ resp[p].body[1].from_cache = TRUE
            /\ tr[p].rd \in {"miss", "fail"} =>
                  /\ tr[p].fetched
                  /\ res[p][1].from_cache = FALSE
                  /\ pc[p] = "save_cache" => tr[p].wr = "none" /\ tr[p].hs = "none"
                  /\ pc[p] = "save_history" => tr[p].wr # "none" /\ tr[p].hs = "none"
                  /\ pc[p] = "done" =>
                        /\ tr[p].wr # "none" /\ tr[p].hs # "none"
                        /\ resp[p] = Ok(res[p])
                  /\ (tr[p].wr = "ok" /\ lastWrite[Normalize(tr[p].raw)] # None
                        /\ lastWrite[Normalize(tr[p].raw)][1].by = p) =>
                        \E r \in cache :
                            /\ r.keyword = Normalize(tr[p].raw)
                            /\ r.data = JsonDumps(res[p][1])
                  /\ (tr[p].hs = "ok" /\ ~tr[p].cleared) =>
                        /\ Cardinality(HistoryOf(p)) = 1
                        /\ \A i \in HistoryOf(p) :
                              /\ history[i].keyword = Strip(tr[p].raw)
                              /\ history[i].score = res[p][1].opportunityScore

C3_Witness ==
    \E p, q \in Procs :
        /\ p # q
        /\ Missed(p) /\ pc[p] = "done" /\ tr[p].wr = "ok" /\ tr[p].hs = "ok"
        /\ Cardinality(HistoryOf(p)) = 1
        /\ Analyzing(q) /\ tr[q].rd = "hit" /\ pc[q] = "done"

C5_ClearAtomic ==
    [][\A p \in Procs :
          (tr'[p].op = "clear"
             /\ (pc'[p] # pc[p] \/ tr'[p] # tr[p] \/ resp'[p] # resp[p]))
          => \/ /\ resp'[p].status = 200
                /\ cache' = {}
                /\ history' = <<>>
             \/ /\ resp'[p].status # 200
                /\ UNCHANGED <<cache, history>>]_vars

C5_Witness ==
    \E p, q \in Procs :
        /\ tr[p].op = "clear" /\ pc[p] = "done" /\ resp[p].status = 200
        /\ cache = {} /\ history = <<>>
        /\ Missed(q) /\ pc[q] = "save_history" /\ tr[q].wr = "ok" /\ tr[q].cleared

(* C6: an empty or blank (whitespace-only) keyword passed to analyze is      *)
(* rejected immediately with HTTP 400: no fetch, no scoring, no cache or     *)
(* history write happens for it.                                             *)
C6_BlankRejected ==
    \A p \in Procs :
        (tr[p].op = "analyze" /\ KeywordMissingOrBlank(tr[p].raw))
        => /\ pc[p] = "done"
           /\ resp[p].status = 400
           /\ ~tr[p].fetched /\ tr[p].wr = "none" /\ tr[p].hs = "none"

(* C7: a storage failure never fails an analysis request: a failed cache     *)
(* read is treated as a miss and the analysis is computed; when the cache    *)
(* write or the history append fails, analyze still returns the freshly      *)
(* computed result with from_cache = FALSE.                                  *)
C7_StorageFailureTolerated ==
    \A p \in Procs :
        Analyzing(p) =>
            /\ resp[p].status \in {0, 200}
            /\ tr[p].rd = "fail" => tr[p].fetched /\ res[p][1].from_cache = FALSE
            /\ (pc[p] = "done" /\ "fail" \in {tr[p].rd, tr[p].wr, tr[p].hs}) =>
                  /\ resp[p].status = 200
                  /\ resp[p].body = res[p]
                  /\ resp[p].body[1].from_cache = FALSE
                  /\ resp[p].body[1].keyword = Strip(tr[p].raw)

C7_Witness ==
    \E p \in Procs :
        /\ Analyzing(p) /\ pc[p] = "done"
        /\ tr[p].rd = "fail" /\ tr[p].wr = "fail" /\ tr[p].hs = "fail"
        /\ resp[p].status = 200
        /\ \E r \in cache : r.keyword = Normalize(tr[p].raw)

(* C8: last write wins per key: when two analyses of the same keyword (equal *)
(* up to case and surrounding whitespace) both miss the cache and both write *)
(* (no clear since), the cache holds exactly one entry for the normalized    *)
(* keyword, that entry is the complete result of the write that happened     *)
(* last, and the history log holds one record from each analysis.            *)
C8_LastWriteWins ==
    \A p, q \in Procs :
        (/\ p # q
         /\ Missed(p) /\ Missed(q)
         /\ Normalize(tr[p].raw) = Normalize(tr[q].raw)
         /\ tr[p].wr = "ok" /\ tr[q].wr = "ok"
         /\ ~tr[p].cleared /\ ~tr[q].cleared)
        => LET key == Normalize(tr[p].raw)
               lw == lastWrite[key]
           IN  /\ Cardinality(RowsOfKey(key)) = 1
               /\ lw # None
               /\ lw[1].by \in {p, q}
               /\ \A r \in RowsOfKey(key) :
                     /\ r.keyword = key
                     /\ r.data = JsonDumps(res[lw[1].by][1])
                     /\ JsonLoads(r.data) = lw[1].data
               /\ (tr[p].hs = "ok" /\ tr[q].hs = "ok") =>
                     /\ Cardinality(HistoryOf(p) \cup HistoryOf(q)) = 2
                     /\ \A i \in HistoryOf(p) :
                           history[i].score = res[p][1].opportunityScore
                     /\ \A i \in HistoryOf(q) :
                           history[i].score = res[q][1].opportunityScore

C8_Witness ==
    \E p, q \in Procs :
        /\ p # q
        /\ now = 0
        /\ Missed(p) /\ Missed(q)
        /\ tr[p].rd = "miss" /\ tr[q].rd = "miss"
        /\ Normalize(tr[p].raw) = Normalize(tr[q].raw)
        /\ pc[p] = "done" /\ pc[q] = "done"
        /\ tr[p].wr = "ok" /\ tr[q].wr = "ok"
        /\ tr[p].hs = "ok" /\ tr[q].hs = "ok"
        /\ res[p] # res[q]
        /\ lastWrite[Normalize(tr[p].raw)][1].by = q
        /\ tr[q].hid < tr[p].hid

(* C9: for every demand history (including empty) and every horizon N >= 0,  *)
(* generate_prophet_forecast returns exactly N points with day offsets 1..N  *)
(* in order; for every point lower <= predicted <= upper and all three lie   *)
(* in [0, 100]; confidence is non-increasing as the day offset increases.    *)
C9_ForecastShape ==
    fout # None =>
        LET f == fout[1]
        IN  /\ Len(f) = fin[1].days
            /\ DOMAIN f = 1..fin[1].days
            /\ \A i \in DOMAIN f :
                  /\ f[i].day = i
                  /\ f[i].lower <= f[i].predicted
                  /\ f[i].predicted <= f[i].upper
                  /\ 0 <= f[i].lower
                  /\ f[i].upper <= 1000
                  /\ i > 1 => f[i].confidence <= f[i - 1].confidence

C9_Witness ==
    /\ fout # None
    /\ fin[1].history = <<100, 100, 100, 100>>
    /\ fin[1].days = 8
    /\ Len(fout[1]) = 8
    /\ fout[1][2].predicted = 1000
    /\ fout[1][2].upper = 1000
    /\ fout[1][2].lower < 1000
    /\ fout[1][8].confidence < fout[1][1].confidence

(* C10 as stated: finalScore lies in [0, 100], is computed with weights      *)
(* 0.35/0.25/0.20/0.10/0.10 that sum to 1.0, and the tier is S iff           *)
(* finalScore >= 80, A iff 65 <= finalScore < 80, B iff 50 <= finalScore <   *)
(* 65, C iff 35 <= finalScore < 50, D iff finalScore < 35, finalScore being  *)
(* the value the function returns.                                           *)
C10_TierOnReturnedScore ==
    fout # None =>
        LET r == fout[1]
            w == r.weights
        IN  /\ 0 <= r.finalScore /\ r.finalScore <= 1000
            /\ w.opportunity + w.growth + w.competition + w.seasonality
                  + w.stability = 100
            /\ r.tier = "S" <=> r.finalScore >= 800
            /\ r.tier = "A" <=> (650 <= r.finalScore /\ r.finalScore < 800)
            /\ r.tier = "B" <=> (500 <= r.finalScore /\ r.finalScore < 650)
            /\ r.tier = "C" <=> (350 <= r.finalScore /\ r.finalScore < 500)
            /\ r.tier = "D" <=> r.finalScore < 350

(* C10 amended: the returned finalScore lies in [0, 100] and is the weighted *)
(* sum 0.35/0.25/0.20/0.10/0.10 (weights summing to 1.0) of the five         *)
(* components rounded to one decimal; the tier is decided on the sum before  *)
(* rounding: S iff sum >= 80, A iff 65 <= sum < 80, B iff 50 <= sum < 65, C  *)
(* iff 35 <= sum < 50, D iff sum < 35, so a tier's returned finalScore may   *)
(* equal the next tier's threshold but never exceed it.                      *)
C10_TierOnWeightedSum ==
    fout # None =>
        LET r == fout[1]
            w == r.weights
            i == fin[1]
            sum == 35 * OpportunityComponent(i.demand, i.supply)
                   + 25 * GrowthComponent(i.growth, i.category_info.growth_factor)
                   + 20 * CompetitionComponent(i.supply)
                   + 10 * SeasonalityComponent(i.category_info.seasonality,
                                               i.current_month)
                   + 10 * StabilityComponent(i.trend_data.history)
            unit == 100 * Scale
        IN  /\ 0 <= r.finalScore /\ r.finalScore <= 1000
            /\ w = [opportunity |-> 35, growth |-> 25, competition |-> 20,
                    seasonality |-> 10, stability |-> 10]
            /\ w.opportunity + w.growth + w.competition + w.seasonality
                  + w.stability = 100
            /\ r.finalScore = RoundDiv(sum, 100 * (Scale \div 10))
            /\ r.tier \in {"S", "A", "B", "C", "D"}
            /\ r.tier = "S" <=> sum >= 80 * unit
            /\ r.tier = "A" <=> (65 * unit <= sum /\ sum < 80 * unit)
            /\ r.tier = "B" <=> (50 * unit <= sum /\ sum < 65 * unit)
            /\ r.tier = "C" <=> (35 * unit <= sum /\ sum < 50 * unit)
            /\ r.tier = "D" <=> sum < 35 * unit
            /\ r.tier = "A" => (650 <= r.finalScore /\ r.finalScore <= 800)
            /\ r.tier = "B" => (500 <= r.finalScore /\ r.finalScore <= 650)
            /\ r.tier = "C" => (350 <= r.finalScore /\ r.finalScore <= 500)
            /\ r.tier = "D" => r.finalScore <= 350
            /\ r.tier = "S" => r.finalScore >= 800

C10_Witness ==
    /\ fout # None
    /\ fin[1].demand = 0 /\ fin[1].supply = 0 /\ fin[1].growth = -1 * Scale
    /\ fin[1].category_info.name = "Lifestyle"
    /\ fin[1].current_month = 1
    /\ fin[1].trend_data.history = <<50, 50, 50, 50>>
    /\ fout[1].finalScore = 800
    /\ fout[1].tier = "A"

(* C11: for every demand and every supply with supply = 0 or supply < 100,  *)
(* calculate_opportunity_score yields raw = 10000 and status "Blue Ocean";   *)
(* for supply >= 100 the status is determined by raw alone: raw >= 1000 Blue *)
(* Ocean, 300..999 Neutral, < 300 Red Ocean, whatever the analysis text.     *)
C11_OpportunityStatus ==
    fout # None =>
        LET r == fout[1]
            supply == fin[1].supply
        IN  /\ (supply = 0 \/ supply < 100) =>
                  /\ r.raw = 10000
                  /\ r.status = "Blue Ocean"
            /\ supply >= 100 =>
                  /\ r.status = "Blue Ocean" <=> r.raw >= 1000
                  /\ r.status = "Neutral" <=> (300 <= r.raw /\ r.raw <= 999)
                  /\ r.status = "Red Ocean" <=> r.raw < 300

C11_Witness ==
    /\ fout # None
    /\ fin[1].demand = 0
    /\ fin[1].supply = 99
    /\ fout[1].raw = 10000
    /\ fout[1].status = "Blue Ocean"

(* C12: calculate_competition_index is total over the non-negative supply    *)
(* totals: every total falls in exactly one of six buckets with exclusive    *)
(* upper bounds 1000, 5000, 20000, 100000, 500000 (no gaps, no overlaps),    *)
(* from "Very Low" with score 95 for total < 1000 to "Extreme" with score 5  *)
(* for total >= 500000, and the result carries that bucket's level and score.*)
C12_CompetitionBuckets ==
    fout # None =>
        LET r == fout[1]
            total == fin[1].weighted_average
            buckets ==
                <<[lo |-> 0, hi |-> 1000, level |-> "Very Low", score |-> 95],
                  [lo |-> 1000, hi |-> 5000, level |-> "Low", score |-> 80],
                  [lo |-> 5000, hi |-> 20000, level |-> "Moderate", score |-> 60],
                  [lo |-> 20000, hi |-> 100000, level |-> "High", score |-> 35],
                  [lo |-> 100000, hi |-> 500000, level |-> "Very High", score |-> 15],
                  [lo |-> 500000, hi |-> -1, level |-> "Extreme", score |-> 5]>>
            In(b) == b.lo <= total /\ (b.hi = -1 \/ total < b.hi)
            mine == {i \in DOMAIN buckets : In(buckets[i])}
        IN  /\ Cardinality(mine) = 1
            /\ \A i \in mine : /\ r.level = buckets[i].level
                               /\ r.score = buckets[i].score
            /\ r.total_supply = total
            /\ total = 800 => (r.level = "Very Low" /\ r.score = 95)
            /\ total = 600000 => (r.level = "Extreme" /\ r.score = 5)

C12_Witness ==
    /\ fout # None
    /\ fin[1].weighted_average = 1000
    /\ fout[1].level = "Low"
    /\ fout[1].score = 80

(* C13: discover scores the first 4 keywords of every selected category (the *)
(* one named by a valid filter, else all) with the niche score engine and    *)
(* returns the entries ordered by finalScore descending and truncated to     *)
(* limit, with quick-estimate demand and with real demand (use_real_data)    *)
(* alike, and does not end in its error outcome (empty list with an error).  *)
C13_DiscoverRanksNiches ==
    fout # None =>
        LET r == fout[1]
            i == fin[1]
            cats == SelectedCategories(i.category)
            expected == {<<cats[c], k>> : c \in DOMAIN cats, k \in 1..4}
        IN  /\ "error" \notin DOMAIN r
            /\ r.totalAnalyzed = Cardinality(expected)
            /\ Len(r.niches) = Min(i.limit, r.totalAnalyzed)
            /\ \A a \in DOMAIN r.niches :
                  /\ <<r.niches[a].category, r.niches[a].keyword>> \in expected
                  /\ r.niches[a].tier \in {"S", "A", "B", "C", "D"}
                  /\ \A b \in DOMAIN r.niches :
                        a < b => r.niches[a].finalScore >= r.niches[b].finalScore

(* C14: every demand snapshot returned by fetch_google_trends_data, on the   *)
(* measured path and on the synthesized fallback path alike, satisfies       *)
(* min <= average <= max whenever its history is non-empty.                  *)
C14_MinAverageMax ==
    fout # None =>
        LET d == fout[1]
        IN  d.history # <<>> => (d.min <= d.average /\ d.average <= d.max)

C14_Witness ==
    /\ fout # None
    /\ fout[1].source = "google_trends_real"
    /\ fout[1].history = <<100, 0, 99>>
    /\ fout[1].min = 0
    /\ fout[1].average = 66
    /\ fout[1].max = 100

(* C15: the confidence of every forecast point is clamped to be >= 0: for    *)
(* every horizon N and every day offset 1..N, generate_prophet_forecast      *)
(* returns a confidence that is not negative.                                *)
C15_ConfidenceNonNegative ==
    fout # None =>
        \A i \in DOMAIN fout[1] : fout[1][i].confidence >= 0

(* C16: for every seasonality class (low, medium, high, very_high), the      *)
(* seasonality sub-score awarded when the current month is in the class's    *)
(* peak-month set is higher than (never lower than) the sub-score awarded    *)
(* for the same class when the month is outside the set.                     *)
C16_PeakScoresHigher ==
    fout # None =>
        LET class == fin[1].category_info.seasonality
            inPeak == Round1(SeasonalityComponent(class, fin[1].current_month))
        IN  fin[1].current_month \in PeakMonths(class) =>
                /\ fout[1].components.seasonality = inPeak
                /\ \A m \in Months \ PeakMonths(class) :
                      Round1(SeasonalityComponent(class, m)) <= inPeak

(* C17: when the demand history has fewer than 4 samples,                    *)
(* calculate_growth_metrics returns the snapshot's momentum as both          *)
(* week-over-week and month-over-month growth, a fixed placeholder           *)
(* volatility, and the stability label "Unknown".                            *)
C17_ShortHistoryFallback ==
    fout # None =>
        (Len(fin[1].history) < 4 =>
            /\ fout[1].week_over_week = Round1Signed(fin[1].momentum)
            /\ fout[1].month_over_month = Round1Signed(fin[1].momentum)
            /\ fout[1].volatility = 100
            /\ fout[1].stability = "Unknown")

(* C18: a cache hit changes no stored state: an analyze call that hits the   *)
(* cache leaves the stored entry's data (including its stored from_cache =   *)
(* FALSE) and its creation timestamp unchanged and appends nothing to the    *)
(* history log; every stored entry keeps the timestamp of the last fresh     *)
(* (miss) analysis of its keyword, so it is absent 24 hours after that       *)
(* analysis however many hits happened in between.                           *)
C18_HitChangesNothing ==
    [][/\ \A p \in Procs :
             (/\ Free(p) /\ nreq' = nreq + 1
              /\ (pc'[p] # pc[p] \/ tr'[p] # tr[p] \/ resp'[p] # resp[p])
              /\ tr'[p].op = "analyze" /\ tr'[p].rd = "hit")
             => /\ cache' = cache
                /\ history' = history
                /\ nextId' = nextId
                /\ resp'[p].body[1].from_cache = TRUE
                /\ \E r \in cache' :
                      /\ r.keyword = Normalize(tr'[p].raw)
                      /\ JsonLoads(r.data).from_cache = FALSE
       /\ \A r \in cache' :
             LET lw == lastWrite'[r.keyword]
             IN  /\ lw # None
                 /\ FromIsoFormat(r.timestamp) = lw[1].t
                 /\ JsonLoads(r.data) = lw[1].data
                 /\ JsonLoads(r.data).from_cache = FALSE
                 /\ now' - lw[1].t >= 24 => (GetCachedResult(r.keyword, FALSE))' = None]_vars

C18_Witness ==
    \E p \in Procs :
        /\ Analyzing(p) /\ tr[p].rd = "hit" /\ pc[p] = "done"
        /\ resp[p].body[1].from_cache = TRUE
        /\ now = 24
        /\ Len(history) = 1
        /\ \E r \in cache :
              /\ r.keyword = Normalize(tr[p].raw)
              /\ r.timestamp = IsoFormat(0)
              /\ JsonLoads(r.data).from_cache = FALSE
              /\ GetCachedResult(r.keyword, FALSE) = None

====
